---- MODULE Spec2Model ----
(***************************************************************************)
(* Release orchestration and maintenance-branch planning of the            *)
(* systemcraft-stack-npmlib CI scripts.                                    *)
(*                                                                         *)
(* The model follows ReleaseService (release/services/release.service.js), *)
(* GitUtil (utils/git.util.js), VersionService                             *)
(* (release/services/version.service.js) and PackageUtil                   *)
(* (utils/package.util.js), and the PR gate ChangesetRequirementService    *)
(* (require-changeset/services/changeset-requirement.service.js).  A       *)
(* release run and a gate call are cut at the external commands they       *)
(* issue; the planning job is one step.                                    *)
(*                                                                         *)
(* Representation of text:                                                 *)
(*   - a ref name or package name is the sequence of its '/'-separated     *)
(*     segments, <<"release", "lib-one@1.0.0">>; <<>> is an unset name;    *)
(*   - a path is a sequence of tokens whose last token is what endsWith    *)
(*     looks at, <<"packages/lib-one/", "package.json">>;                  *)
(*   - a captured stdout is the sequence of its lines, "" or <<>> being    *)
(*     an empty line;                                                      *)
(*   - a semver version is the triple of its components.                   *)
(***************************************************************************)
EXTENDS Integers, Sequences, FiniteSets, TLC

VARIABLES
    planFile,      \* .release-meta/maintenance-branches.json: [exists, valid, pairs]
    remote,        \* branch names present on origin
    runNo,         \* release runs started so far
    verRuns,       \* planning jobs run so far
    versionIn,     \* inputs of the last planning job
    versionLog,    \* effects of the last planning job, in order
    pc,            \* position of the release run
    outcome,       \* how the current release run ended
    ctx,           \* ReleaseContext of the current run
    changedFiles,  \* what getChangedFiles returned in the current run
    steps,         \* steps planned by planRelease
    stepIdx,       \* index of the step being executed
    log,           \* commands issued by the current run, in order
    fsOps,         \* filesystem calls of the current run, in order
    created,       \* per branch: 'git branch' commands issued over all runs
    pushed,        \* per branch: 'git push' commands issued over all runs
    pushedOk,      \* per branch: 'git push' commands that succeeded over all runs
    gatePc,        \* position of the validateChangeset call ("exited": the process was ended inside it)
    prContext,     \* the context and options validateChangeset was called with
    strategy,      \* index of the diff strategy getChangedFilesBetweenRefs tries next
    fetching,      \* state of the promise returned by fetchBranches ("exited": the process was ended inside it)
    gateLog,       \* git commands issued by the validateChangeset call, in order
    gateResult,    \* the result object of validateChangeset
    shellCalls,    \* calls of ShellUtil.exec made by one process, with what each gave its caller
    exitCalls,     \* the statuses process.exit was called with by that process
    mainPc,        \* position of main() of require-changeset.js ("none": validateChangeset is called directly)
    signals,       \* core.setFailed / core.setOutput calls of main(), in order
    jobs,          \* concurrent release jobs: per job its position, steps and commands issued
    schedule       \* "interleaved": the jobs' commands interleave; "serialized": one job at a time

shellVars == <<shellCalls, exitCalls>>

entryVars == <<mainPc, signals>>

concVars == <<jobs, schedule>>

otherVars == <<shellVars, entryVars, concVars>>

gateCore == <<gatePc, prContext, strategy, fetching, gateLog, gateResult>>

gateVars == <<gateCore, otherVars>>

vars == <<planFile, remote, runNo, verRuns, versionIn, versionLog, pc, outcome,
          ctx, changedFiles, steps, stepIdx, log, fsOps, created, pushed, pushedOk,
          gateVars>>

runVars == <<pc, outcome, ctx, changedFiles, steps, stepIdx, log, fsOps>>

releaseVars == <<planFile, remote, runNo, verRuns, versionIn, versionLog, runVars,
                 created, pushed, pushedOk>>

-----------------------------------------------------------------------------
(* Bounds *)

NumRuns == 2

MaxVersionRuns == 1

MaxPlanJobs == 2

MaxShellCalls == 2

NumJobs == 2

-----------------------------------------------------------------------------
(* Text helpers *)

RECURSIVE Join(_, _)
Join(segs, sep) ==
    IF Len(segs) = 0 THEN ""
    ELSE IF Len(segs) = 1 THEN segs[1]
    ELSE segs[1] \o sep \o Join(Tail(segs), sep)

Last(s) == s[Len(s)]

EndsWith(path, suffix) == Len(path) > 0 /\ Last(path) = suffix

RECURSIVE FilterBoolean(_)
FilterBoolean(lines) ==
    IF Len(lines) = 0 THEN <<>>
    ELSE IF Head(lines) = <<>> THEN FilterBoolean(Tail(lines))
    ELSE <<Head(lines)>> \o FilterBoolean(Tail(lines))

TrimIsEmpty(lines) == \A i \in 1..Len(lines) : lines[i] = ""

VersionString(v) == ToString(v[1]) \o "." \o ToString(v[2]) \o "." \o ToString(v[3])

-----------------------------------------------------------------------------
(* Input domains *)

ModeFlags == {"true", "false"}

Main == <<"main">>

RefNames == {Main, <<"release", "lib-one@1.0.0">>, <<"feature", "test">>, <<>>}

PkgOne == <<"@scope", "pkg-one">>
PkgTwo == <<"@scope", "pkg-two">>
LibOne == <<"@scope", "lib-one">>

FeatureJs == <<"src/", "feature.js">>
ReadmeMd == <<"docs/", "README.md">>
PackageJson == <<"packages/lib-one/", "package.json">>
ChangelogMd == <<"packages/lib-one/", "CHANGELOG.md">>

Stdouts ==
    { <<>>,
      <<FeatureJs, ReadmeMd, <<>>>>,
      <<PackageJson, ChangelogMd, <<>>>>,
      <<FeatureJs, ChangelogMd>> }


NoLine == [quote |-> "none", name |-> <<>>, sep |-> "", kind |-> ""]

BumpLine(q, n, k) == [quote |-> q, name |-> n, sep |-> ": ", kind |-> k]

Changeset(fname, ls) == [filename |-> <<fname, ".md">>, lines |-> ls]

TwoMajorBumps ==
    [exists |-> TRUE,
     files |-> << Changeset("major1", <<NoLine, BumpLine("double", PkgOne, "major"), NoLine>>),
                  Changeset("major2", <<NoLine, BumpLine("double", PkgTwo, "major"), NoLine>>) >>]

ChangesetDirs ==
    { [exists |-> FALSE, files |-> <<>>],
      TwoMajorBumps,
      [exists |-> TRUE,
       files |-> << [filename |-> <<"README", ".md">>, lines |-> <<NoLine>>],
                    Changeset("minor-bump", <<NoLine, BumpLine("double", PkgOne, "minor"), NoLine>>) >>],
      [exists |-> TRUE,
       files |-> << Changeset("complex", <<NoLine, BumpLine("single", PkgOne, "major"),
                                           BumpLine("double", PkgTwo, "major"),
                                           BumpLine("double", PkgTwo, "major")>>) >>] }

Manifest(v) == [exists |-> TRUE, version |-> v]

NoManifest == [exists |-> FALSE, version |-> <<0, 0, 0>>]

BothManifests ==
    [d \in {"pkg-one", "pkg-two"} |-> IF d = "pkg-one" THEN Manifest(<<1, 2, 3>>) ELSE Manifest(<<4, 5, 6>>)]

ManifestSets ==
    { BothManifests,
      [d \in {"pkg-one", "pkg-two"} |-> IF d = "pkg-one" THEN Manifest(<<1, 2, 3>>) ELSE NoManifest] }

TwoMajorBumpsReversed ==
    [exists |-> TRUE, files |-> <<TwoMajorBumps.files[2], TwoMajorBumps.files[1]>>]

Line(q, n, s, k) == [quote |-> q, name |-> n, sep |-> s, kind |-> k]

VariousFormats ==
    [exists |-> TRUE,
     files |-> << Changeset("complex", <<NoLine,
                                         Line("double", PkgOne, " : ", "major"),
                                         Line("single", PkgTwo, ": ", "major"),
                                         Line("none", PkgTwo, ": ", "major"),
                                         Line("double", PkgTwo, ":", "major"),
                                         Line("double", PkgTwo, ":", "minor"),
                                         Line("double", PkgTwo, ": ", "patch"),
                                         NoLine>>) >>]

MixedListing ==
    [exists |-> TRUE,
     files |-> << Changeset("one", <<BumpLine("double", PkgTwo, "major")>>),
                  [filename |-> <<"config", ".json">>, lines |-> <<NoLine>>],
                  [filename |-> <<"README", ".md">>,
                   lines |-> <<BumpLine("double", PkgOne, "major")>>],
                  [filename |-> <<"notes", ".md", ".bak">>, lines |-> <<NoLine>>],
                  Changeset("readme", <<NoLine>>) >>]

RepeatedBumps ==
    [exists |-> TRUE,
     files |-> << Changeset("first", <<BumpLine("double", PkgOne, "major"),
                                       BumpLine("double", PkgTwo, "major"),
                                       BumpLine("double", PkgOne, "major")>>),
                  Changeset("second", <<NoLine, BumpLine("double", PkgTwo, "major")>>) >>]

RepeatedBumpsShuffled ==
    [exists |-> TRUE,
     files |-> << Changeset("second", <<BumpLine("double", PkgTwo, "major"), NoLine>>),
                  Changeset("first", <<BumpLine("double", PkgTwo, "major"),
                                       BumpLine("double", PkgOne, "major"),
                                       BumpLine("double", PkgOne, "major")>>) >>]

OtherPkgOne == <<"@other", "pkg-one">>

SharedLastSegment ==
    [exists |-> TRUE,
     files |-> << Changeset("scope", <<NoLine, BumpLine("double", PkgOne, "major")>>),
                  Changeset("other", <<NoLine, BumpLine("double", OtherPkgOne, "major")>>) >>]

PlanDirs ==
    ChangesetDirs \cup
    {TwoMajorBumpsReversed, VariousFormats, MixedListing, RepeatedBumps, RepeatedBumpsShuffled,
     SharedLastSegment}

PlanManifestSets ==
    ManifestSets \cup
    { [d \in {"pkg-one", "pkg-two"} |-> IF d = "pkg-one" THEN NoManifest ELSE Manifest(<<4, 5, 6>>)],
      [d \in {"pkg-one", "pkg-two"} |-> NoManifest],
      [d \in {"pkg-one", "pkg-two"} |-> IF d = "pkg-one" THEN Manifest(<<1, 9, 0>>)
                                        ELSE Manifest(<<4, 5, 6>>)] }

NoVersionIn == [dir |-> [exists |-> FALSE, files |-> <<>>],
                manifests |-> [d \in {"pkg-one", "pkg-two"} |-> NoManifest],
                metaDir |-> FALSE,
                ran |-> FALSE]

-----------------------------------------------------------------------------
(* PackageUtil *)

getPackageInfo(packageName, manifests) ==
    LET packageDirName == Last(packageName)
    IN  IF ~manifests[packageDirName].exists
        THEN [found |-> FALSE, version |-> <<0, 0, 0>>, dirName |-> packageDirName]
        ELSE [found |-> TRUE, version |-> manifests[packageDirName].version,
              dirName |-> packageDirName]

IsChangesetFile_AnyMarkdown(f) == EndsWith(f, ".md")

IsChangesetFile(f) == EndsWith(f, ".md") /\ f # <<"README", ".md">>

RECURSIVE SelectFiles(_)
SelectFiles(files) ==
    IF Len(files) = 0 THEN <<>>
    ELSE IF IsChangesetFile(Head(files).filename)
         THEN <<Head(files)>> \o SelectFiles(Tail(files))
         ELSE SelectFiles(Tail(files))

loadChangesetFiles(dir) == IF ~dir.exists THEN <<>> ELSE SelectFiles(dir.files)

IncludesColonMajor(line) == line.kind = "major" /\ line.sep \in {": ", " : "}

RegexMatches_AnyQuote(line) ==
    line.quote \in {"double", "single"} /\ line.name # <<>> /\ line.kind = "major"

RegexMatches(line) == line.quote = "double" /\ line.name # <<>> /\ line.kind = "major"

SetAdd_Push(s, x) == Append(s, x)

SetAdd(s, x) == IF \E i \in 1..Len(s) : s[i] = x THEN s ELSE Append(s, x)

RECURSIVE ExtractFromLines(_, _)
ExtractFromLines(lines, acc) ==
    IF Len(lines) = 0 THEN acc
    ELSE LET line == Head(lines)
         IN  IF IncludesColonMajor(line) /\ RegexMatches(line)
             THEN ExtractFromLines(Tail(lines), SetAdd(acc, line.name))
             ELSE ExtractFromLines(Tail(lines), acc)

RECURSIVE ExtractFromFiles(_, _)
ExtractFromFiles(files, acc) ==
    IF Len(files) = 0 THEN acc
    ELSE ExtractFromFiles(Tail(files), ExtractFromLines(Head(files).lines, acc))

extractMajorBumpPackagesFromChangesets(changesetFiles) == ExtractFromFiles(changesetFiles, <<>>)

-----------------------------------------------------------------------------
(* VersionService *)

getMajorBumpPackages(dir) ==
    LET files == loadChangesetFiles(dir)
    IN  IF Len(files) = 0 THEN <<>> ELSE extractMajorBumpPackagesFromChangesets(files)

PlannedBranchName(pkgInfo) ==
    "release/" \o pkgInfo.dirName \o "@" \o VersionString(pkgInfo.version)

RECURSIVE PlanLoop_StopAtMissing(_, _, _)
PlanLoop_StopAtMissing(pkgs, manifests, plan) ==
    IF Len(pkgs) = 0 THEN plan
    ELSE LET pkgInfo == getPackageInfo(Head(pkgs), manifests)
         IN  IF ~pkgInfo.found
             THEN plan
             ELSE PlanLoop_StopAtMissing(Tail(pkgs), manifests,
                                         Append(plan, [pkg |-> Head(pkgs),
                                                       branchName |-> PlannedBranchName(pkgInfo),
                                                       version |-> pkgInfo.version,
                                                       dirName |-> pkgInfo.dirName]))

RECURSIVE PlanLoop(_, _, _)
PlanLoop(pkgs, manifests, plan) ==
    IF Len(pkgs) = 0 THEN plan
    ELSE LET pkgInfo == getPackageInfo(Head(pkgs), manifests)
         IN  IF ~pkgInfo.found
             THEN PlanLoop(Tail(pkgs), manifests, plan)
             ELSE PlanLoop(Tail(pkgs), manifests,
                           Append(plan, [pkg |-> Head(pkgs),
                                         branchName |-> PlannedBranchName(pkgInfo),
                                         version |-> pkgInfo.version,
                                         dirName |-> pkgInfo.dirName]))

generateMaintenancePlan_FirstOnly(majorBumpPackages, manifests) ==
    PlanLoop(SubSeq(majorBumpPackages, 1, 1), manifests, <<>>)

generateMaintenancePlan(majorBumpPackages, manifests) == PlanLoop(majorBumpPackages, manifests, <<>>)

JSONstringify(plan) == [exists |-> TRUE, valid |-> TRUE, pairs |-> plan]

writePlanFile_Merge(plan) ==
    JSONstringify((IF planFile.exists /\ planFile.valid THEN planFile.pairs ELSE <<>>) \o plan)

writePlanFile(plan) == JSONstringify(plan)


-----------------------------------------------------------------------------
(* GitUtil: the command lines it builds and how it reads their output *)

DiffStrategies == <<"git diff --name-only HEAD~1..HEAD", "git diff --name-only HEAD^..HEAD">>

LsRemoteCmd_AllHeads(branchName) == "git ls-remote --heads origin"

LsRemoteCmd(branchName) == "git ls-remote --heads origin " \o branchName

BranchCmd(branchName, fromCommit) == "git branch " \o branchName \o " " \o fromCommit

PushCmd(branchName) == "git push origin " \o branchName

PublishCmd == "pnpm changeset publish"

VersionCmd == "pnpm changeset version"

checkRemoteBranch_Inverted(stdout) == TrimIsEmpty(stdout)

checkRemoteBranch(stdout) == ~TrimIsEmpty(stdout)

LsRemoteStdout(branchName, heads) ==
    IF branchName \in heads THEN <<"0a1b2c3 refs/heads/" \o branchName>> ELSE <<>>

-----------------------------------------------------------------------------
(* ReleaseService *)

StartsWithRelease(ref) == Len(ref) >= 2 /\ ref[1] = "release"

getReleaseContext(env) ==
    [isMultiRelease |-> env.ENABLE_MULTI_RELEASE = "true",
     branchName |-> env.GITHUB_REF_NAME,
     isReleaseBranch |-> (env.GITHUB_REF_NAME # <<>> /\ StartsWithRelease(env.GITHUB_REF_NAME)),
     isMainBranch |-> env.GITHUB_REF_NAME = Main]

SkipsBranch_NamedOnly(c) ==
    ~c.isMainBranch /\ ~c.isReleaseBranch /\ c.isMultiRelease /\ c.branchName # <<>>

SkipsBranch(c) == ~c.isMainBranch /\ ~c.isReleaseBranch /\ c.isMultiRelease

IsReleaseFile(file) == EndsWith(file, "package.json") \/ EndsWith(file, "CHANGELOG.md")

latestChangesAreReleaseChanges(files) == \E i \in 1..Len(files) : IsReleaseFile(files[i])

EnsureStep(b) == [type |-> "ensure-maintenance-branch", branchName |-> b, cmd |-> ""]

ExecStep(c) == [type |-> "exec", branchName |-> "", cmd |-> c]

PlanApplies_AnyMode(plan, c) == Len(plan) > 0

PlanApplies(plan, c) == Len(plan) > 0 /\ c.isMultiRelease /\ c.isMainBranch

PublishSteps_Twice == <<ExecStep(PublishCmd), ExecStep(PublishCmd)>>

PublishSteps == <<ExecStep(PublishCmd)>>

PlanFsOps_Unlink(file) ==
    <<"existsSync">> \o (IF file.exists THEN <<"readFileSync", "unlinkSync">> ELSE <<>>)

PlanFsOps(file) == <<"existsSync">> \o (IF file.exists THEN <<"readFileSync">> ELSE <<>>)

JSONparseThrows_NoExistsCheck(file) == ~file.valid

JSONparseThrows(file) == file.exists /\ ~file.valid

planRelease_PublishPerEntry(c, file) ==
    LET plan == IF file.exists THEN file.pairs ELSE <<>>
        ensure == IF PlanApplies(plan, c)
                  THEN [i \in 1..(2 * Len(plan)) |->
                           IF i % 2 = 1 THEN EnsureStep(plan[(i + 1) \div 2].branchName)
                           ELSE ExecStep(PublishCmd)]
                  ELSE <<>>
    IN  ensure \o PublishSteps

planRelease_PublishFirst(c, file) ==
    LET plan == IF file.exists THEN file.pairs ELSE <<>>
        ensure == IF PlanApplies(plan, c)
                  THEN [i \in 1..Len(plan) |-> EnsureStep(plan[i].branchName)]
                  ELSE <<>>
    IN  PublishSteps \o ensure

planRelease(c, file) ==
    LET plan == IF file.exists THEN file.pairs ELSE <<>>
        ensure == IF PlanApplies(plan, c)
                  THEN [i \in 1..Len(plan) |-> EnsureStep(plan[i].branchName)]
                  ELSE <<>>
    IN  ensure \o PublishSteps

FromCommit_Head == "HEAD"

FromCommit == "HEAD~1"

NeedsCreate_Always(branchExists) == TRUE

NeedsCreate(branchExists) == ~branchExists

Cmd(k, c, good, nonEmpty, i) ==
    [kind |-> k, cmd |-> c, ok |-> good, out |-> nonEmpty, step |-> i]


-----------------------------------------------------------------------------
(* ChangesetRequirementService: the PR context and its pure decisions.
   A title or body is the sequence of its fragments, a label name likewise;
   a SHA is a string, "" when the payload has none. *)

SkipMarker == "[skip changeset check]"

VersionPackages == "Version Packages"

Null == "null"

StartsWith(text, prefix) == Len(text) > 0 /\ text[1] = prefix

Includes(text, needle) == \E i \in 1..Len(text) : text[i] = needle

RefStartsWith(ref, prefix) == Len(ref) >= 2 /\ ref[1] = prefix

Titles ==
    { <<"Fix bug">>, <<VersionPackages>>, <<"chore: ", VersionPackages>>, <<"Fix bug ", SkipMarker>> }

Bodies == { <<"Regular PR description">>, <<"This is a minor fix ", SkipMarker>> }

Actors == {"user", "github-actions[bot]", "dependabot[bot]"}

HeadRefs ==
    { <<"feature-branch">>, <<"changeset-release", "main">>, <<"dependabot", "npm", "lodash">>, <<>> }

LabelSets ==
    { <<>>, <<[name |-> <<"bug">>], [name |-> <<SkipMarker>>]>>, <<[name |-> <<"wip ", SkipMarker>>]>> }

ShaPairs == { [base |-> "abc123", head |-> "def456"], [base |-> "", head |-> ""] }

PullRequestContexts ==
    [eventName : {"pull_request"}, actor : Actors, title : Titles, body : Bodies,
     headRef : HeadRefs, baseRef : {Main}, labels : LabelSets, sha : ShaPairs]

PushContexts ==
    [eventName : {"push"}, actor : Actors, title : {<<>>}, body : {<<>>},
     headRef : {<<>>}, baseRef : {Main}, labels : {<<>>}, sha : {[base |-> "", head |-> ""]}]

Contexts == PullRequestContexts \cup PushContexts

LabelMatches_Includes(name, skipLabel) == Includes(name, skipLabel)

LabelMatches(name, skipLabel) == name = <<skipLabel>>

shouldSkipCheck_NonPullRequestOnly(context, skipLabel) == context.eventName # "pull_request"

shouldSkipCheck(context, skipLabel) ==
    IF context.eventName # "pull_request" THEN TRUE
    ELSE LET prTitle == context.title
             prBody == context.body
             headRef == context.headRef
         IN  IF \/ StartsWith(prTitle, VersionPackages)
                \/ context.actor = "github-actions[bot]"
                \/ RefStartsWith(headRef, "changeset-release")
             THEN TRUE
             ELSE IF context.actor = "dependabot[bot]" \/ RefStartsWith(headRef, "dependabot")
             THEN TRUE
             ELSE LET hasSkipLabelInText == Includes(prTitle, skipLabel) \/ Includes(prBody, skipLabel)
                      hasSkipLabelInLabels ==
                          \E i \in 1..Len(context.labels) :
                             LabelMatches(context.labels[i].name, skipLabel)
                  IN  hasSkipLabelInText \/ hasSkipLabelInLabels

IsChangesetPath_Unanchored(file) ==
    Len(file) >= 2 /\ Includes(file, ".changeset/") /\ Last(file) = ".md"

IsChangesetPath(file) == Len(file) >= 2 /\ file[1] = ".changeset/" /\ Last(file) = ".md"

RECURSIVE findChangesetFiles(_)
findChangesetFiles(files) ==
    IF Len(files) = 0 THEN <<>>
    ELSE IF IsChangesetPath(Head(files))
         THEN <<Head(files)>> \o findChangesetFiles(Tail(files))
         ELSE findChangesetFiles(Tail(files))

NewResult ==
    [shouldSkip |-> FALSE, changedFiles |-> <<>>, changesetFiles |-> <<>>,
     hasChangeset |-> FALSE, skipReason |-> Null, error |-> Null]

SkipReason == "Skip condition met (not PR, bot, release, or skip label)"

-----------------------------------------------------------------------------
(* GitUtil.getChangedFilesBetweenRefs and fetchBranch *)

FetchCmd(ref) == "git fetch origin " \o Join(ref, "/")

BetweenRefsCmd(i, baseRef, headRef, baseSha, headSha) ==
    CASE i = 1 -> "git diff --name-only origin/" \o Join(baseRef, "/")
                     \o "...origin/" \o Join(headRef, "/")
      [] i = 2 -> "git diff --name-only " \o baseSha \o "..." \o headSha
      [] i = 3 -> "git diff --name-only " \o baseSha \o ".." \o headSha
      [] i = 4 -> "git diff --name-only origin/" \o Join(baseRef, "/") \o "...HEAD"

NumStrategies == 4

StrategyApplies(i, headRef, baseSha, headSha) ==
    CASE i = 1 -> headRef # <<>>
      [] i \in {2, 3} -> baseSha # "" /\ headSha # ""
      [] i = 4 -> TRUE

SrcIndexJs == <<"src/", "index.js">>
RootReadmeMd == <<"README", ".md">>
FeatureMd == <<".changeset/", "feature", ".md">>
ConfigJson == <<".changeset/", "config", ".json">>
ChangesetReadmeMd == <<".changeset/", "README", ".md">>
NestedNotesMd == <<"docs/", ".changeset/", "notes", ".md">>
Spaces == <<" ">>

BetweenRefsStdouts ==
    { <<>>,
      <<Spaces, <<>>>>,
      <<SrcIndexJs, RootReadmeMd, <<>>>>,
      <<<<>>, SrcIndexJs, <<>>, FeatureMd, ConfigJson, <<>>>>,
      <<FeatureMd, NestedNotesMd, SrcIndexJs, ChangesetReadmeMd, <<>>>> }

BlankLine(line) == line = <<>> \/ line = Spaces

RECURSIVE TrimStart(_)
TrimStart(lines) ==
    IF Len(lines) = 0 THEN <<>>
    ELSE IF BlankLine(Head(lines)) THEN TrimStart(Tail(lines))
    ELSE lines

RECURSIVE TrimEnd(_)
TrimEnd(lines) ==
    IF Len(lines) = 0 THEN <<>>
    ELSE IF BlankLine(Last(lines)) THEN TrimEnd(SubSeq(lines, 1, Len(lines) - 1))
    ELSE lines

Trim(lines) == TrimEnd(TrimStart(lines))

Produces_AnyText(stdout) == stdout # <<>>

Produces(stdout) == stdout # <<>> /\ Trim(stdout) # <<>>

SplitFiles(stdout) == FilterBoolean(Trim(stdout))

NoMethodError == "Could not get changed files with any method"

GitCmd(k, c, o, t) == [kind |-> k, cmd |-> c, outcome |-> o, stdout |-> t, strategy |-> 0]

DiffCmd(i, c, o, t) == [kind |-> "diff", cmd |-> c, outcome |-> o, stdout |-> t, strategy |-> i]

-----------------------------------------------------------------------------
(* ShellUtil.exec.  execSync is the injected child-process API: it returns
   null or undefined (nothing captured), a string or a Buffer, or it throws.
   What exec gives its caller is a record: it returned {stdout}, it threw
   the error of execSync, or it called process.exit. *)

ShellCommands == {"git status --porcelain", "pnpm changeset publish"}

ExecOptions == {[stdio |-> "unset"], [stdio |-> "inherit"], [stdio |-> "pipe"]}

CommandFailed == [message |-> "Command failed"]

ExecSyncRuns ==
    { [threw |-> FALSE, kind |-> "null", text |-> ""],
      [threw |-> FALSE, kind |-> "undefined", text |-> ""],
      [threw |-> FALSE, kind |-> "string", text |-> "mocked output"],
      [threw |-> FALSE, kind |-> "buffer", text |-> "piped output"],
      [threw |-> FALSE, kind |-> "buffer", text |-> ""],
      [threw |-> TRUE, kind |-> "error", text |-> CommandFailed.message] }

ExecSyncOptions(options) ==
    [stdio |-> IF options.stdio = "unset" THEN "inherit" ELSE options.stdio]

Rethrows_Never(options) == FALSE

Rethrows(options) == options.stdio = "pipe"

exec(command, options, run) ==
    IF ~run.threw
    THEN IF run.kind \in {"null", "undefined"}
         THEN [outcome |-> "returned", stdout |-> "", error |-> Null, status |-> 0]
         ELSE [outcome |-> "returned", stdout |-> run.text, error |-> Null, status |-> 0]
    ELSE IF Rethrows(options)
         THEN [outcome |-> "threw", stdout |-> "", error |-> run.text, status |-> 0]
         ELSE [outcome |-> "exit", stdout |-> "", error |-> Null, status |-> 1]

-----------------------------------------------------------------------------
(* Counters over branch names *)

Count(f, b) == IF b \in DOMAIN f THEN f[b] ELSE 0

Inc(f, b) == [x \in (DOMAIN f) \cup {b} |-> Count(f, x) + (IF x = b THEN 1 ELSE 0)]

-----------------------------------------------------------------------------
(* Initial state *)

NoPlanFile == [exists |-> FALSE, valid |-> FALSE, pairs |-> <<>>]

GarbagePlanFile == [exists |-> TRUE, valid |-> FALSE, pairs |-> <<>>]

LibOneEntry == [pkg |-> LibOne, branchName |-> "release/lib-one@1.0.0",
                version |-> <<1, 0, 0>>, dirName |-> "lib-one"]

IdleJob == [pc |-> "idle", steps |-> <<>>, stepIdx |-> 0, log |-> <<>>, outcome |-> "none"]

InitialPlanFiles ==
    { NoPlanFile, GarbagePlanFile, JSONstringify(<<>>), JSONstringify(<<LibOneEntry>>) }

BranchPool == {"release/lib-one@1.0.0", "release/pkg-one@1.2.3", "release/pkg-two@4.5.6"}

NoPRContext ==
    [context |-> [eventName |-> "", actor |-> "", title |-> <<>>, body |-> <<>>,
                  headRef |-> <<>>, baseRef |-> <<>>, labels |-> <<>>,
                  sha |-> [base |-> "", head |-> ""]],
     skipLabel |-> SkipMarker, fetchBranches |-> FALSE]

NoCtx == getReleaseContext([ENABLE_MULTI_RELEASE |-> "false", GITHUB_REF_NAME |-> <<>>])

IdleRun ==
    /\ pc' = "idle"
    /\ outcome' = "none"
    /\ ctx' = NoCtx
    /\ changedFiles' = <<>>
    /\ steps' = <<>>
    /\ stepIdx' = 0
    /\ log' = <<>>
    /\ fsOps' = <<>>

Init ==
    /\ planFile \in InitialPlanFiles
    /\ remote \in SUBSET BranchPool
    /\ runNo = 0
    /\ verRuns = 0
    /\ versionIn = NoVersionIn
    /\ versionLog = <<>>
    /\ pc = "idle"
    /\ outcome = "none"
    /\ ctx = NoCtx
    /\ changedFiles = <<>>
    /\ steps = <<>>
    /\ stepIdx = 0
    /\ log = <<>>
    /\ fsOps = <<>>
    /\ created = <<>>
    /\ pushed = <<>>
    /\ pushedOk = <<>>
    /\ gatePc = "idle"
    /\ prContext = NoPRContext
    /\ strategy = 0
    /\ fetching = "none"
    /\ gateLog = <<>>
    /\ gateResult = NewResult
    /\ shellCalls = <<>>
    /\ exitCalls = <<>>
    /\ mainPc = "none"
    /\ signals = <<>>
    /\ jobs = [p \in 1..NumJobs |-> IdleJob]
    /\ schedule = "unset"

-----------------------------------------------------------------------------
(* The planning job: VersionService.run *)

SameDescriptors(d1, d2) ==
    /\ d1.exists = d2.exists
    /\ Len(d1.files) = Len(d2.files)
    /\ {d1.files[i] : i \in 1..Len(d1.files)} = {d2.files[i] : i \in 1..Len(d2.files)}

VersionCommands_Always(majorBumpPackages, versionOk) ==
    IF versionOk THEN <<VersionCmd>> ELSE <<VersionCmd, "process.exit">>

VersionCommands(majorBumpPackages, versionOk) ==
    IF Len(majorBumpPackages) = 0
    THEN <<>>
    ELSE IF versionOk THEN <<VersionCmd>> ELSE <<VersionCmd, "process.exit">>

VersionServiceRun(limit, dirs, manifestSets) ==
    /\ pc \in {"idle", "done"}
    /\ verRuns < limit
    /\ \E dir \in dirs, manifests \in manifestSets,
          metaDirExists \in (IF planFile.exists THEN {TRUE} ELSE BOOLEAN),
          versionOk \in BOOLEAN :
          LET majorBumpPackages == getMajorBumpPackages(dir)
              plan == IF Len(majorBumpPackages) = 0
                      THEN <<>>
                      ELSE generateMaintenancePlan(majorBumpPackages, manifests)
              existsSync == planFile.exists \/ metaDirExists
              mkdir == IF existsSync THEN <<>> ELSE <<"mkdirSync">>
              version == VersionCommands(majorBumpPackages, versionOk)
          IN  /\ (Len(majorBumpPackages) = 0 => versionOk)
              /\ planFile' = writePlanFile(plan)
              /\ versionLog' = mkdir \o <<"writeFileSync">> \o version
              /\ versionIn' = [dir |-> dir, manifests |-> manifests,
                                metaDir |-> existsSync, ran |-> TRUE]
    /\ verRuns' = verRuns + 1
    /\ IdleRun
    /\ UNCHANGED <<gateVars, remote, runNo, created, pushed, pushedOk>>

VersionRun == VersionServiceRun(MaxVersionRuns, ChangesetDirs, ManifestSets)

-----------------------------------------------------------------------------
(* A release run: ReleaseService.run *)

Finish_KeepsGoing(result) ==
    /\ pc' = pc
    /\ outcome' = result

Finish(result) ==
    /\ pc' = "done"
    /\ outcome' = result

StartRun ==
    /\ pc \in {"idle", "done"}
    /\ runNo < NumRuns
    /\ runNo' = runNo + 1
    /\ \E flag \in ModeFlags, ref \in RefNames :
          LET c == getReleaseContext([ENABLE_MULTI_RELEASE |-> flag, GITHUB_REF_NAME |-> ref])
          IN  /\ ctx' = c
              /\ IF SkipsBranch(c)
                 THEN Finish("skipped")
                 ELSE pc' = "diff1" /\ outcome' = "running"
    /\ changedFiles' = <<>>
    /\ steps' = <<>>
    /\ stepIdx' = 0
    /\ log' = <<>>
    /\ fsOps' = <<>>
    /\ UNCHANGED <<gateVars, planFile, remote, verRuns, versionIn, versionLog, created, pushed, pushedOk>>

Returned(files) ==
    /\ changedFiles' = files
    /\ IF latestChangesAreReleaseChanges(files)
       THEN pc' = "plan" /\ outcome' = outcome
       ELSE Finish("skipped")

StrategyReturns_Always(files) == TRUE

StrategyReturns(files) == Len(files) > 0

Diff(n) ==
    /\ pc = (IF n = 1 THEN "diff1" ELSE "diff2")
    /\ \/ \E stdout \in Stdouts :
             LET files == FilterBoolean(stdout)
             IN  /\ log' = Append(log, Cmd("diff", DiffStrategies[n], TRUE, Len(files) > 0, 0))
                 /\ IF StrategyReturns(files)
                    THEN Returned(files)
                    ELSE IF n = 1
                         THEN pc' = "diff2" /\ UNCHANGED <<outcome, changedFiles>>
                         ELSE Returned(<<>>)
       \/ /\ log' = Append(log, Cmd("diff", DiffStrategies[n], FALSE, FALSE, 0))
          /\ IF n = 1
             THEN pc' = "diff2" /\ UNCHANGED <<outcome, changedFiles>>
             ELSE Returned(<<>>)
    /\ UNCHANGED <<gateVars, planFile, remote, runNo, verRuns, versionIn, versionLog, ctx, steps,
                   stepIdx, fsOps, created, pushed, pushedOk>>

Diff1 == Diff(1)

Diff2 == Diff(2)

PlanRelease ==
    /\ pc = "plan"
    /\ fsOps' = fsOps \o PlanFsOps(planFile)
    /\ IF JSONparseThrows(planFile)
       THEN Finish("threw") /\ UNCHANGED <<steps, stepIdx>>
       ELSE /\ steps' = planRelease(ctx, planFile)
            /\ stepIdx' = 1
            /\ pc' = "step"
            /\ outcome' = outcome
    /\ UNCHANGED <<gateVars, planFile, remote, runNo, verRuns, versionIn, versionLog, ctx,
                   changedFiles, log, created, pushed, pushedOk>>

NextStep_Repeat == pc' = "step" /\ stepIdx' = stepIdx /\ outcome' = outcome

NextStep ==
    IF stepIdx < Len(steps)
    THEN pc' = "step" /\ stepIdx' = stepIdx + 1 /\ outcome' = outcome
    ELSE Finish("completed") /\ stepIdx' = stepIdx

CheckBranch ==
    /\ pc = "step"
    /\ steps[stepIdx].type = "ensure-maintenance-branch"
    /\ LET b == steps[stepIdx].branchName
       IN  \/ LET stdout == LsRemoteStdout(b, remote)
                  branchExists == checkRemoteBranch(stdout)
              IN  /\ log' = Append(log, Cmd("ls-remote", LsRemoteCmd(b), TRUE, stdout # <<>>, stepIdx))
                  /\ IF NeedsCreate(branchExists)
                     THEN pc' = "create" /\ UNCHANGED <<stepIdx, outcome>>
                     ELSE NextStep
           \/ /\ log' = Append(log, Cmd("ls-remote", LsRemoteCmd(b), FALSE, FALSE, stepIdx))
              /\ Finish("threw")
              /\ UNCHANGED stepIdx
    /\ UNCHANGED <<gateVars, planFile, remote, runNo, verRuns, versionIn, versionLog, ctx,
                   changedFiles, steps, fsOps, created, pushed, pushedOk>>

CreateBranch ==
    /\ pc = "create"
    /\ LET b == steps[stepIdx].branchName
       IN  /\ created' = Inc(created, b)
           /\ \E good \in BOOLEAN :
                 /\ log' = Append(log, Cmd("branch", BranchCmd(b, FromCommit), good, FALSE, stepIdx))
                 /\ IF good THEN pc' = "push" /\ outcome' = outcome ELSE Finish("exit")
    /\ UNCHANGED <<gateVars, planFile, remote, runNo, verRuns, versionIn, versionLog, ctx,
                   changedFiles, steps, stepIdx, fsOps, pushed, pushedOk>>

PushBranch ==
    /\ pc = "push"
    /\ LET b == steps[stepIdx].branchName
       IN  /\ pushed' = Inc(pushed, b)
           /\ \E good \in BOOLEAN :
                 /\ log' = Append(log, Cmd("push", PushCmd(b), good, FALSE, stepIdx))
                 /\ IF good
                    THEN /\ remote' = remote \cup {b}
                         /\ pushedOk' = Inc(pushedOk, b)
                         /\ NextStep
                    ELSE /\ Finish("exit")
                         /\ UNCHANGED <<remote, pushedOk, stepIdx>>
    /\ UNCHANGED <<gateVars, planFile, runNo, verRuns, versionIn, versionLog, ctx,
                   changedFiles, steps, fsOps, created>>

ExecCommand ==
    /\ pc = "step"
    /\ steps[stepIdx].type = "exec"
    /\ \E good \in BOOLEAN :
          /\ log' = Append(log, Cmd("exec", steps[stepIdx].cmd, good, FALSE, stepIdx))
          /\ IF good THEN NextStep ELSE Finish("exit") /\ UNCHANGED stepIdx
    /\ UNCHANGED <<gateVars, planFile, remote, runNo, verRuns, versionIn, versionLog, ctx,
                   changedFiles, steps, fsOps, created, pushed, pushedOk>>

Next ==
    \/ VersionRun
    \/ StartRun
    \/ Diff1
    \/ Diff2
    \/ PlanRelease
    \/ CheckBranch
    \/ CreateBranch
    \/ PushBranch
    \/ ExecCommand

Spec == Init /\ [][Next]_vars

(* A release run that has started keeps going: each external command it
   issues returns or fails, and the code between two commands is finite. *)
RunStep ==
    \/ Diff1
    \/ Diff2
    \/ PlanRelease
    \/ CheckBranch
    \/ CreateBranch
    \/ PushBranch
    \/ ExecCommand

(* The remote starts with none or with all of the branches; remotes holding
   some of them arise from the runs themselves. *)
LiveInit == Init /\ remote \in {{}, BranchPool}

LiveSpec == LiveInit /\ [][Next]_vars /\ WF_vars(RunStep)

-----------------------------------------------------------------------------
(* The planning job on its own: a first job over a wider set of inputs,
   then the job again on the same descriptors (listed in any order) and the
   same manifests *)

PlanningJob ==
    /\ ~versionIn.ran
    /\ VersionServiceRun(MaxPlanJobs, PlanDirs, PlanManifestSets)

Replan ==
    /\ versionIn.ran
    /\ VersionServiceRun(MaxPlanJobs,
                         {dir \in PlanDirs : SameDescriptors(versionIn.dir, dir)},
                         {versionIn.manifests})

PlanAfresh ==
    /\ versionIn.ran
    /\ VersionServiceRun(MaxPlanJobs,
                         {dir \in PlanDirs : ~SameDescriptors(versionIn.dir, dir)},
                         PlanManifestSets)

PlannerNext ==
    \/ PlanningJob
    \/ Replan
    \/ PlanAfresh

PlannerSpec == Init /\ [][PlannerNext]_vars


-----------------------------------------------------------------------------
(* The PR gate: ChangesetRequirementService.validateChangeset.  The call is
   cut at the git commands.  fetchBranches is an async function called
   without await: its part up to the first await (the fetch of the base ref)
   runs inside the call, the rest runs once validateChangeset has returned. *)

FetchOutcomes == {"ok", "threw", "exit"}

Returns(res) ==
    /\ gateResult' = res
    /\ gatePc' = "returned"

ValidateChangesetCall(fetchOptions) ==
    /\ gatePc = "idle"
    /\ \E context \in Contexts, fetchBranches \in fetchOptions :
          /\ prContext' = [context |-> context, skipLabel |-> SkipMarker,
                           fetchBranches |-> fetchBranches]
          /\ IF shouldSkipCheck(context, SkipMarker)
             THEN Returns([NewResult EXCEPT !.shouldSkip = TRUE, !.skipReason = SkipReason])
             ELSE /\ gateResult' = NewResult
                  /\ gatePc' = IF fetchBranches THEN "fetchBase" ELSE "diff"
    /\ strategy' = 1
    /\ fetching' = "none"
    /\ gateLog' = <<>>
    /\ UNCHANGED <<releaseVars, shellVars, concVars>>

ValidateChangeset ==
    /\ mainPc = "none"
    /\ ValidateChangesetCall(BOOLEAN)
    /\ UNCHANGED entryVars

FetchOutcomesNow ==
    IF mainPc = "none" THEN FetchOutcomes ELSE FetchOutcomes \ {"threw"}

FetchBase ==
    /\ gatePc = "fetchBase"
    /\ \E o \in FetchOutcomesNow :
          /\ gateLog' = Append(gateLog, GitCmd("fetch", FetchCmd(prContext.context.baseRef), o, <<>>))
          /\ fetching' = (CASE o = "ok" -> "pending" [] o = "threw" -> "rejected" [] o = "exit" -> "exited")
          /\ gatePc' = IF o = "exit" THEN "exited" ELSE "diff"
    /\ UNCHANGED <<releaseVars, otherVars, prContext, strategy, gateResult>>

StrategyGave(i, stdout) ==
    IF Produces(stdout)
    THEN /\ Returns([gateResult EXCEPT
                        !.changedFiles = SplitFiles(stdout),
                        !.changesetFiles = findChangesetFiles(SplitFiles(stdout)),
                        !.hasChangeset = Len(findChangesetFiles(SplitFiles(stdout))) > 0])
         /\ strategy' = i
    ELSE IF i < NumStrategies
         THEN /\ strategy' = i + 1
              /\ UNCHANGED <<gatePc, gateResult>>
         ELSE /\ Returns([gateResult EXCEPT !.error = NoMethodError])
              /\ strategy' = i

TryStrategy ==
    /\ gatePc = "diff"
    /\ LET c == prContext.context
           i == strategy
       IN  IF ~StrategyApplies(i, c.headRef, c.sha.base, c.sha.head)
           THEN StrategyGave(i, <<>>) /\ UNCHANGED gateLog
           ELSE LET cmd == BetweenRefsCmd(i, c.baseRef, c.headRef, c.sha.base, c.sha.head)
                IN  \/ /\ gateLog' = Append(gateLog, DiffCmd(i, cmd, "threw", <<>>))
                       /\ StrategyGave(i, <<>>)
                    \/ \E stdout \in BetweenRefsStdouts :
                          /\ gateLog' = Append(gateLog, DiffCmd(i, cmd, "ok", stdout))
                          /\ StrategyGave(i, stdout)
    /\ UNCHANGED <<releaseVars, otherVars, prContext, fetching>>

ResumeFetchBranches ==
    /\ gatePc = "returned"
    /\ fetching = "pending"
    /\ IF prContext.context.headRef = <<>>
       THEN fetching' = "fulfilled" /\ UNCHANGED <<gateLog, gatePc>>
       ELSE \E o \in FetchOutcomesNow :
               /\ gateLog' = Append(gateLog, GitCmd("fetch", FetchCmd(prContext.context.headRef), o, <<>>))
               /\ fetching' = (CASE o = "ok" -> "fulfilled" [] o = "threw" -> "rejected"
                                 [] o = "exit" -> "exited")
               /\ UNCHANGED gatePc
    /\ UNCHANGED <<releaseVars, otherVars, prContext, strategy, gateResult>>

(* main() of require-changeset.js: it builds the service with its default
   GitUtil and ShellUtil, awaits validateChangeset(context, {skipLabel}) and
   signals the result to the host; the rest of fetchBranches is queued
   before the continuation of main and so runs first *)

SetFailed(message) == [call |-> "setFailed", args |-> <<message>>]

SetOutput(name, value) == [call |-> "setOutput", args |-> <<name, value>>]

PathText(path) == Join(path, "")

JoinPaths(files, sep) == Join([i \in 1..Len(files) |-> PathText(files[i])], sep)

SignalOf(result) ==
    IF result.error # Null THEN SetFailed(result.error)
    ELSE IF result.shouldSkip THEN SetOutput("skipped", "true")
    ELSE IF ~result.hasChangeset THEN SetFailed("No changeset found for this PR")
    ELSE SetOutput("changeset-files", JoinPaths(result.changesetFiles, ","))

MainStarts ==
    /\ mainPc = "none"
    /\ \E modulesLoaded \in BOOLEAN :
          IF ~modulesLoaded
          THEN /\ gatePc = "idle"
               /\ mainPc' = "no-host"
               /\ UNCHANGED <<releaseVars, shellVars, concVars, gateCore>>
          ELSE /\ mainPc' = "awaiting"
               /\ ValidateChangesetCall({TRUE})
    /\ signals' = <<>>

MainResumes ==
    /\ mainPc = "awaiting"
    /\ gatePc = "returned"
    /\ fetching \in {"none", "fulfilled", "rejected"}
    /\ signals' = Append(signals, SignalOf(gateResult))
    /\ mainPc' = "done"
    /\ UNCHANGED <<releaseVars, shellVars, concVars, gateCore>>

GateInit == Init /\ planFile = NoPlanFile /\ remote = {}

GateNext ==
    \/ ValidateChangeset
    \/ MainStarts
    \/ MainResumes
    \/ FetchBase
    \/ TryStrategy
    \/ ResumeFetchBranches

GateSpec == GateInit /\ [][GateNext]_vars

-----------------------------------------------------------------------------
(* A process that calls ShellUtil.exec: a caller that catches what exec
   throws goes on to its next call, a process that exec has ended makes no
   further call *)

ShellExec(runs) ==
    /\ exitCalls = <<>>
    /\ Len(shellCalls) < MaxShellCalls
    /\ \E command \in ShellCommands, options \in ExecOptions, run \in runs :
          LET given == exec(command, options, run)
          IN  /\ shellCalls' = Append(shellCalls,
                     [command |-> command, options |-> options,
                      passed |-> ExecSyncOptions(options), run |-> run, given |-> given])
              /\ exitCalls' = IF given.outcome = "exit"
                              THEN Append(exitCalls, given.status)
                              ELSE exitCalls
    /\ UNCHANGED <<releaseVars, gateCore, entryVars, concVars>>

CommandSucceeds == ShellExec({run \in ExecSyncRuns : ~run.threw})

CommandFails == ShellExec({run \in ExecSyncRuns : run.threw})

ShellInit == GateInit

ShellNext ==
    \/ CommandSucceeds
    \/ CommandFails

ShellSpec == ShellInit /\ [][ShellNext]_vars

-----------------------------------------------------------------------------
(* Release jobs running at the same time on 'main' in multi-release mode,
   each in its own clone, against the same plan file and the same remote.
   A job is taken from the point where its preconditions hold; each action
   is one command of one job.  Under the serialized schedule a job moves
   only while no other job is under way. *)

Schedules == {"interleaved", "serialized"}

MainCtx == getReleaseContext([ENABLE_MULTI_RELEASE |-> "true", GITHUB_REF_NAME |-> Main])

UnderWay(q) == jobs[q].pc \notin {"idle", "done"}

MayMove(p) == schedule = "interleaved" \/ \A q \in (1..NumJobs) \ {p} : ~UnderWay(q)

JobAt(p, position) == jobs[p].pc = position /\ MayMove(p)

JobStep(p) == jobs[p].steps[jobs[p].stepIdx]

JobIssues(p, command) == [jobs[p] EXCEPT !.log = Append(@, command)]

JobEnds(job, result) == [job EXCEPT !.pc = "done", !.outcome = result]

JobNextStep(job) ==
    IF job.stepIdx < Len(job.steps)
    THEN [job EXCEPT !.pc = "step", !.stepIdx = @ + 1]
    ELSE JobEnds(job, "completed")

RemoteAfterPush_Unchanged(heads, b) == heads

RemoteAfterPush(heads, b) == heads \cup {b}

JobVars == <<planFile, runNo, verRuns, versionIn, versionLog, runVars, created, pushed,
             pushedOk, gateCore, shellVars, entryVars>>

JobStart ==
    \E p \in 1..NumJobs :
        /\ jobs[p].pc = "idle"
        /\ IF schedule = "unset"
           THEN schedule' \in Schedules
           ELSE MayMove(p) /\ UNCHANGED schedule
        /\ jobs' = [jobs EXCEPT ![p] = [pc |-> "step", steps |-> planRelease(MainCtx, planFile),
                                         stepIdx |-> 1, log |-> <<>>, outcome |-> "running"]]
        /\ UNCHANGED remote
        /\ UNCHANGED JobVars

JobCheckBranch ==
    \E p \in 1..NumJobs :
        /\ JobAt(p, "step")
        /\ JobStep(p).type = "ensure-maintenance-branch"
        /\ LET b == JobStep(p).branchName
               i == jobs[p].stepIdx
           IN  \/ LET stdout == LsRemoteStdout(b, remote)
                      branchExists == checkRemoteBranch(stdout)
                      job == JobIssues(p, Cmd("ls-remote", LsRemoteCmd(b), TRUE, stdout # <<>>, i))
                  IN  jobs' = [jobs EXCEPT ![p] = IF NeedsCreate(branchExists)
                                                  THEN [job EXCEPT !.pc = "create"]
                                                  ELSE JobNextStep(job)]
               \/ jobs' = [jobs EXCEPT ![p] =
                              JobEnds(JobIssues(p, Cmd("ls-remote", LsRemoteCmd(b), FALSE, FALSE, i)),
                                      "threw")]
        /\ UNCHANGED <<remote, schedule>>
        /\ UNCHANGED JobVars

JobCreateBranch ==
    \E p \in 1..NumJobs :
        /\ JobAt(p, "create")
        /\ \E good \in BOOLEAN :
              LET b == JobStep(p).branchName
                  job == JobIssues(p, Cmd("branch", BranchCmd(b, FromCommit), good, FALSE,
                                          jobs[p].stepIdx))
              IN  jobs' = [jobs EXCEPT ![p] = IF good THEN [job EXCEPT !.pc = "push"]
                                              ELSE JobEnds(job, "exit")]
        /\ UNCHANGED <<remote, schedule>>
        /\ UNCHANGED JobVars

JobPushBranch ==
    \E p \in 1..NumJobs :
        /\ JobAt(p, "push")
        /\ \E good \in BOOLEAN :
              LET b == JobStep(p).branchName
                  job == JobIssues(p, Cmd("push", PushCmd(b), good, FALSE, jobs[p].stepIdx))
              IN  /\ jobs' = [jobs EXCEPT ![p] = IF good THEN JobNextStep(job)
                                                  ELSE JobEnds(job, "exit")]
                  /\ remote' = IF good THEN RemoteAfterPush(remote, b) ELSE remote
        /\ UNCHANGED schedule
        /\ UNCHANGED JobVars

JobExecCommand ==
    \E p \in 1..NumJobs :
        /\ JobAt(p, "step")
        /\ JobStep(p).type = "exec"
        /\ \E good \in BOOLEAN :
              LET job == JobIssues(p, Cmd("exec", JobStep(p).cmd, good, FALSE, jobs[p].stepIdx))
              IN  jobs' = [jobs EXCEPT ![p] = IF good THEN JobNextStep(job)
                                              ELSE JobEnds(job, "exit")]
        /\ UNCHANGED <<remote, schedule>>
        /\ UNCHANGED JobVars

JobsInit == Init /\ planFile = JSONstringify(<<LibOneEntry>>)

JobsNext ==
    \/ JobStart
    \/ JobCheckBranch
    \/ JobCreateBranch
    \/ JobPushBranch
    \/ JobExecCommand

JobsSpec == JobsInit /\ [][JobsNext]_vars

-----------------------------------------------------------------------------
(* Vocabulary of the properties *)

Started == pc # "idle"

Ended == pc = "done"

LogIdx == 1..Len(log)

Issued(k) == {i \in LogIdx : log[i].kind = k}

PublishIdx == {i \in LogIdx : log[i].cmd = PublishCmd}

IsOtherBranch == ctx.branchName # Main /\ ~StartsWithRelease(ctx.branchName)

PublishOnly == ~ctx.isMultiRelease \/ StartsWithRelease(ctx.branchName)

FanOut == ctx.isMultiRelease /\ ctx.branchName = Main

ReleaseEvent == \E i \in 1..Len(changedFiles) : IsReleaseFile(changedFiles[i])

PlanEntries == IF planFile.exists /\ planFile.valid THEN planFile.pairs ELSE <<>>

EntryBranch(i) == PlanEntries[i].branchName

AbsentAt(i) == log[i].kind = "ls-remote" /\ log[i].ok /\ ~log[i].out

PresentAt(i) == log[i].kind = "ls-remote" /\ log[i].ok /\ log[i].out

-----------------------------------------------------------------------------
(* C1: in multi-release mode a run on a branch that is neither 'main' nor
   'release/...' (an unset branch name included) issues no command at all
   and returns normally, as a skipped run. *)
C1_OtherBranchIssuesNothing ==
    (Started /\ ctx.isMultiRelease /\ IsOtherBranch)
        => (log = <<>> /\ Ended /\ outcome = "skipped")

C1_Witness ==
    /\ Ended
    /\ ctx.isMultiRelease
    /\ ctx.branchName = <<"feature", "test">>
    /\ outcome = "skipped"
    /\ log = <<>>
    /\ runNo = 1

(* C2: whatever the mode, branch, changed files, plan file and remote, a run
   issues 'pnpm changeset publish' at most once. *)
C2_PublishAtMostOnce == Cardinality(PublishIdx) <= 1

C2_Witness ==
    /\ Ended
    /\ outcome = "completed"
    /\ FanOut
    /\ Len(PlanEntries) = 2
    /\ Cardinality(PublishIdx) = 1

(* C3: a finished run has issued publish exactly when the mode is
   single-release or the branch is 'main' or 'release/...', and some changed
   path ends in package.json or CHANGELOG.md. *)
C3_PublishIffEligibleReleaseEvent ==
    Ended => ((PublishIdx # {}) <=> ((~ctx.isMultiRelease \/ ~IsOtherBranch) /\ ReleaseEvent))

(* C4: in a fan-out run (multi-release, 'main', release event) an existence
   check that found the entry's branch absent is followed at once by
   'git branch <b> HEAD~1' and, when that succeeded, by 'git push origin <b>';
   neither command is issued anywhere else, the branch is never taken from
   another commit, and when publish is issued the entry has exactly one
   create and one push, both before it. *)
C4_AbsentBranchCreatedThenPushed ==
    /\ \A k \in LogIdx :
          AbsentAt(k) =>
             LET b == EntryBranch(log[k].step)
             IN  /\ FanOut /\ ReleaseEvent
                 /\ (k = Len(log) => pc = "create")
                 /\ (k < Len(log) => /\ log[k + 1].cmd = BranchCmd(b, "HEAD~1")
                                     /\ log[k + 1].step = log[k].step)
                 /\ (k + 1 = Len(log) /\ log[k + 1].ok => pc = "push")
                 /\ (k + 1 < Len(log) => /\ log[k + 1].ok
                                         /\ log[k + 2].cmd = PushCmd(b)
                                         /\ log[k + 2].step = log[k].step)
                 /\ \A p \in PublishIdx :
                       /\ k + 2 < p
                       /\ log[k + 2].ok
                       /\ Cardinality({j \in Issued("branch") : log[j].step = log[k].step}) = 1
                       /\ Cardinality({j \in Issued("push") : log[j].step = log[k].step}) = 1
    /\ \A j \in Issued("branch") : j > 1 /\ AbsentAt(j - 1) /\ log[j - 1].step = log[j].step
    /\ \A j \in Issued("push") :
          j > 1 /\ log[j - 1].kind = "branch" /\ log[j - 1].ok /\ log[j - 1].step = log[j].step

C4_Witness ==
    /\ Ended
    /\ outcome = "completed"
    /\ FanOut
    /\ Len(log) >= 4
    /\ \E k \in LogIdx :
          /\ AbsentAt(k)
          /\ k + 3 = Len(log)
          /\ log[k + 1].cmd = BranchCmd(EntryBranch(log[k].step), "HEAD~1")
          /\ log[k + 2].cmd = PushCmd(EntryBranch(log[k].step))
          /\ log[k + 3].cmd = PublishCmd

(* C5: an existence check that returned non-empty output is followed by no
   create and no push for that entry; the run goes on with the next entry's
   check or with publish. *)
C5_ExistingBranchSkipped ==
    \A k \in LogIdx :
       PresentAt(k) =>
          /\ \A j \in Issued("branch") \cup Issued("push") : log[j].step # log[k].step
          /\ (k = Len(log) => pc = "step" /\ stepIdx = log[k].step + 1 /\ outcome = "running")
          /\ (k < Len(log) =>
                \/ log[k + 1].cmd = PublishCmd
                \/ /\ log[k + 1].kind = "ls-remote"
                   /\ log[k + 1].step = log[k].step + 1
                   /\ log[k + 1].cmd = LsRemoteCmd(EntryBranch(log[k].step + 1)))

C5_Witness ==
    /\ Ended
    /\ outcome = "completed"
    /\ Len(PlanEntries) = 2
    /\ Len(log) = 4
    /\ PresentAt(2)
    /\ PresentAt(3)
    /\ log[4].cmd = PublishCmd


(* C6, as stated: over all sequential runs each branch name has at most one
   'git branch' and at most one 'git push' issued for it, and a run issues
   one ls-remote for every entry it handles. *)
RecheckedEachRun ==
    \A i \in 1..Len(steps) :
       steps[i].type = "ensure-maintenance-branch" =>
          LET checks == {j \in Issued("ls-remote") : log[j].step = i}
          IN  /\ Cardinality(checks) <= 1
              /\ (i < stepIdx \/ (i = stepIdx /\ pc \in {"create", "push"})
                     => Cardinality(checks) = 1)
              /\ \A j \in Issued("branch") \cup Issued("push") :
                    log[j].step = i => \E k \in checks : k < j

C6_CreatedAndPushedAtMostOnce ==
    /\ \A b \in (DOMAIN created) \cup (DOMAIN pushed) :
          Count(created, b) <= 1 /\ Count(pushed, b) <= 1
    /\ RecheckedEachRun

(* C6, amended: over all sequential runs each branch name is pushed
   successfully at most once; once a branch is on the remote no run issues
   'git branch' or 'git push' for it again; and every run issues exactly one
   ls-remote for each entry it handles, before any create or push of it. *)
C6_PushedOnceNeverRecreated ==
    /\ [](\A b \in DOMAIN pushedOk : pushedOk[b] <= 1)
    /\ []RecheckedEachRun
    /\ [][\A b \in remote : /\ Count(created, b)' = Count(created, b)
                            /\ Count(pushed, b)' = Count(pushed, b)]_vars

C6_Witness ==
    /\ runNo = 2
    /\ Ended
    /\ outcome = "completed"
    /\ Issued("push") = {}
    /\ \E k \in LogIdx :
          /\ PresentAt(k)
          /\ Count(pushedOk, EntryBranch(log[k].step)) = 1

(* C7: in single-release mode, or on a 'release/...' branch in multi-release
   mode, no ls-remote, 'git branch' or 'git push' is planned or issued
   whatever the plan file holds; apart from the read-only diff the only
   command is publish. *)
C7_PublishOnlyNeverActsOnPlan ==
    (Started /\ PublishOnly) =>
        /\ Issued("ls-remote") \cup Issued("branch") \cup Issued("push") = {}
        /\ \A i \in 1..Len(steps) : steps[i].type = "exec" /\ steps[i].cmd = PublishCmd
        /\ \A i \in LogIdx : log[i].kind # "diff" => log[i].cmd = PublishCmd

C7_Witness ==
    /\ Ended
    /\ outcome = "completed"
    /\ ctx.isMultiRelease
    /\ StartsWithRelease(ctx.branchName)
    /\ Len(PlanEntries) > 0
    /\ PublishIdx # {}

(* C8: in single-release mode, or on a 'release/...' branch in multi-release
   mode, a run on a release event makes no filesystem call for the plan file
   and has issued publish when it ends, whatever the plan file holds. *)
C8_PublishOnlyNeverConsultsPlan ==
    (Ended /\ PublishOnly /\ ReleaseEvent) => (fsOps = <<>> /\ PublishIdx # {})

(* C9: in multi-release mode on 'main' with a release event, a plan file that
   is absent or holds '{}' gives no ls-remote, 'git branch' or 'git push', no
   error, and publish as the one command left: issued exactly once when the
   run ends. *)
C9_MissingOrEmptyPlanStillPublishes ==
    (FanOut /\ ReleaseEvent /\ (~planFile.exists \/ (planFile.valid /\ planFile.pairs = <<>>))) =>
        /\ Issued("ls-remote") \cup Issued("branch") \cup Issued("push") = {}
        /\ outcome # "threw"
        /\ Cardinality(PublishIdx) <= 1
        /\ (pc = "step" => steps[stepIdx].cmd = PublishCmd)
        /\ (Ended => Cardinality(PublishIdx) = 1)

C9_Witness ==
    /\ Ended
    /\ outcome = "completed"
    /\ FanOut
    /\ versionIn.ran
    /\ planFile = JSONstringify(<<>>)
    /\ Cardinality(PublishIdx) = 1
    /\ Len(log) = 2

(* C10: after the planning job has run on major bumps for @scope/pkg-one
   (1.2.3) and @scope/pkg-two (4.5.6) the plan names release/pkg-one_v1 and
   release/pkg-two_v4, and a completed multi-release run on 'main' that found
   neither branch on the remote has issued exactly check, create, push for
   the first, check, create, push for the second, then publish. *)
C10_EndToEndSevenCommands ==
    (versionIn.ran /\ versionIn.dir = TwoMajorBumps /\ versionIn.manifests = BothManifests) =>
        /\ [i \in 1..Len(PlanEntries) |-> EntryBranch(i)]
              = <<"release/pkg-one_v1", "release/pkg-two_v4">>
        /\ (Ended /\ outcome = "completed" /\ FanOut /\ (\A k \in Issued("ls-remote") : AbsentAt(k)))
              => [i \in LogIdx |-> log[i].cmd]
                    = << LsRemoteCmd("release/pkg-one_v1"),
                         BranchCmd("release/pkg-one_v1", "HEAD~1"),
                         PushCmd("release/pkg-one_v1"),
                         LsRemoteCmd("release/pkg-two_v4"),
                         BranchCmd("release/pkg-two_v4", "HEAD~1"),
                         PushCmd("release/pkg-two_v4"),
                         PublishCmd >>

(* C29: a 'git branch', 'git push' or 'pnpm changeset publish' that fails
   is the last command of its release run: the run has ended there by
   process exit, so the command is not issued again and no later command
   (push or publish after a failed create, publish after a failed push)
   follows it. *)
FailedAt(i) == log[i].kind \in {"branch", "push", "exec"} /\ ~log[i].ok

-----------------------------------------------------------------------------
(* Vocabulary of the planning-job properties *)

Planned == versionIn.ran

MajorBumpSet == getMajorBumpPackages(versionIn.dir)

Resolves(pkg) == versionIn.manifests[Last(pkg)].exists

EntriesOf(pkg) == {i \in 1..Len(PlanEntries) : PlanEntries[i].pkg = pkg}

PendingFiles == loadChangesetFiles(versionIn.dir)

Writes == {i \in 1..Len(versionLog) : versionLog[i] = "writeFileSync"}

VersionCalls == {i \in 1..Len(versionLog) : versionLog[i] = VersionCmd}

(* C11: after the planning job, every package of the major-bump set whose
   manifest resolves has an entry with dirName the last '/'-segment of its
   name, majorVersion the leading component of the manifest version, and
   branchName 'release/<dirName>_v<majorVersion>'. *)
C11_EntryNamedByMajorVersion ==
    Planned =>
       \A k \in 1..Len(MajorBumpSet) :
          LET pkg == MajorBumpSet[k]
              major == versionIn.manifests[Last(pkg)].version[1]
          IN  Resolves(pkg) =>
                 \E i \in EntriesOf(pkg) :
                    LET e == PlanEntries[i]
                    IN  /\ e.dirName = Last(pkg)
                        /\ e.branchName = "release/" \o e.dirName \o "_v" \o ToString(major)
                        /\ "majorVersion" \in DOMAIN e
                        /\ e.majorVersion = major

(* C12: a planning job that runs on the same pending descriptors (in any
   listing order) and the same on-disk manifests as the job before it leaves
   the plan file with the same keys and the same entry fields, and, when the
   listing order is the same too, with identical content. *)
SamePlanUpToKeyOrder(f, g) ==
    /\ f.exists = g.exists
    /\ f.valid = g.valid
    /\ Len(f.pairs) = Len(g.pairs)
    /\ {f.pairs[i] : i \in 1..Len(f.pairs)} = {g.pairs[i] : i \in 1..Len(g.pairs)}

SameInputsAgain ==
    /\ versionIn.ran
    /\ verRuns' = verRuns + 1
    /\ SameDescriptors(versionIn.dir, versionIn'.dir)
    /\ versionIn'.manifests = versionIn.manifests

C13_WriteThenVersionOnce ==
    (Planned /\ Len(PendingFiles) > 0) =>
        /\ Cardinality(Writes) = 1
        /\ Cardinality(VersionCalls) = 1
        /\ \A w \in Writes, v \in VersionCalls : w < v
        /\ (Len(MajorBumpSet) = 0 => planFile = JSONstringify(<<>>))

(* C14: a package of the major-bump set whose package.json is missing has no
   entry in the plan, every other package of the set has exactly one entry
   carrying its own manifest version, nothing else is in the plan, and the
   plan file is written all the same: as '{}' when every package was
   skipped. *)
C14_MissingManifestSkipped ==
    Planned =>
        /\ \A k \in 1..Len(MajorBumpSet) :
              LET pkg == MajorBumpSet[k]
              IN  IF Resolves(pkg)
                  THEN /\ Cardinality(EntriesOf(pkg)) = 1
                       /\ \A i \in EntriesOf(pkg) :
                             PlanEntries[i].version = versionIn.manifests[Last(pkg)].version
                  ELSE EntriesOf(pkg) = {}
        /\ \A i \in 1..Len(PlanEntries) :
              \E k \in 1..Len(MajorBumpSet) : MajorBumpSet[k] = PlanEntries[i].pkg
        /\ planFile.exists /\ planFile.valid
        /\ Cardinality(Writes) = 1
        /\ ((\A k \in 1..Len(MajorBumpSet) : ~Resolves(MajorBumpSet[k]))
               => planFile = JSONstringify(<<>>))

C14_Witness ==
    /\ Planned
    /\ MajorBumpSet = <<PkgOne, PkgTwo>>
    /\ ~Resolves(PkgOne)
    /\ Resolves(PkgTwo)
    /\ [i \in 1..Len(PlanEntries) |-> PlanEntries[i].pkg] = <<PkgTwo>>
    /\ Cardinality(Writes) = 1

(* C15: when the .changeset directory is absent the job writes the plan file
   exactly once, with the empty plan '{}', and issues no shell command. *)
C15_NoChangesetDirWritesEmptyPlan ==
    (Planned /\ ~versionIn.dir.exists) =>
        /\ Cardinality(Writes) = 1
        /\ planFile = JSONstringify(<<>>)
        /\ \A i \in 1..Len(versionLog) : versionLog[i] \in {"mkdirSync", "writeFileSync"}

C15_Witness ==
    /\ Planned
    /\ ~versionIn.dir.exists
    /\ versionLog = <<"mkdirSync", "writeFileSync">>
    /\ planFile = JSONstringify(<<>>)

(* C23: the major-bump set of the planning job holds exactly the package
   names that stand in double quotes on a line of a pending descriptor of
   the form "<name>": major (blanks allowed before the colon, ': major'
   after it); a line whose name is single-quoted or unquoted, whose bump
   kind is minor or patch, or whose colon is not followed by a blank,
   contributes nothing. *)
C23_MajorBumpSetIsDoubleQuotedMajors ==
    Planned =>
       LET lines == UNION {{f.lines[j] : j \in 1..Len(f.lines)} :
                              f \in {PendingFiles[i] : i \in 1..Len(PendingFiles)}}
       IN  {MajorBumpSet[k] : k \in 1..Len(MajorBumpSet)}
              = {l.name : l \in {m \in lines : /\ m.quote = "double"
                                               /\ m.kind = "major"
                                               /\ m.sep \in {": ", " : "}}}

C23_Witness ==
    /\ Planned
    /\ versionIn.dir = VariousFormats
    /\ versionIn.manifests = BothManifests
    /\ MajorBumpSet = <<PkgOne>>
    /\ [i \in 1..Len(PlanEntries) |-> PlanEntries[i].pkg] = <<PkgOne>>

(* C24: the pending descriptors of the planning job are the empty sequence
   when the .changeset directory is absent; otherwise they are, in the order
   of the directory listing, one {filename, content} record for every entry
   whose name ends in '.md' and is not 'README.md', and nothing else. *)
IsDescriptorEntry(entry) ==
    /\ entry.filename[Len(entry.filename)] = ".md"
    /\ entry.filename # <<"README", ".md">>

C24_PendingDescriptorsAreListedMarkdown ==
    Planned =>
        /\ (~versionIn.dir.exists => PendingFiles = <<>>)
        /\ (versionIn.dir.exists =>
               PendingFiles = SelectSeq(versionIn.dir.files, IsDescriptorEntry))
        /\ \A i \in 1..Len(PendingFiles) : DOMAIN PendingFiles[i] = {"filename", "lines"}

C24_Witness ==
    /\ Planned
    /\ versionIn.dir = MixedListing
    /\ [i \in 1..Len(PendingFiles) |-> PendingFiles[i].filename]
          = << <<"one", ".md">>, <<"readme", ".md">> >>
    /\ MajorBumpSet = <<PkgTwo>>

(* C25: every planning job leaves the plan file holding exactly the
   serialization of the plan it computed, whatever the file held before: an
   entry of the previous content is in the file afterwards only if the new
   plan has it; and the job calls mkdirSync, before the write, exactly when
   .release-meta did not exist. *)
NewPlan(inputs) ==
    IF Len(getMajorBumpPackages(inputs.dir)) = 0 THEN <<>>
    ELSE generateMaintenancePlan(getMajorBumpPackages(inputs.dir), inputs.manifests)

Mkdirs == {i \in 1..Len(versionLog) : versionLog[i] = "mkdirSync"}

C25_PlanFileOverwritten ==
    [][verRuns' = verRuns + 1 =>
          /\ planFile'.exists /\ planFile'.valid
          /\ planFile'.pairs = NewPlan(versionIn')
          /\ \A i \in 1..Len(PlanEntries) :
                (\E j \in 1..Len(PlanEntries') : PlanEntries'[j] = PlanEntries[i])
                   => \E k \in 1..Len(NewPlan(versionIn')) :
                         NewPlan(versionIn')[k] = PlanEntries[i]
          /\ (planFile.exists => versionIn'.metaDir)
          /\ Cardinality(Mkdirs') = (IF versionIn'.metaDir THEN 0 ELSE 1)
          /\ \A m \in Mkdirs', w \in Writes' : m < w]_vars

C25_Witness ==
    /\ verRuns = 2
    /\ versionIn.dir = VariousFormats
    /\ versionIn.manifests = BothManifests
    /\ versionIn.metaDir
    /\ Mkdirs = {}
    /\ [i \in 1..Len(planFile.pairs) |-> planFile.pairs[i].pkg] = <<PkgOne>>

(* C28: the planned branch name depends only on the package directory and
   the major version: when a planning job follows another, a package planned
   by both with the same directory name and the same leading version
   component (1.2.3 then 1.9.0) keeps its branch name. *)
C28_BranchNameStableWithinMajor ==
    [][\A i \in 1..Len(PlanEntries) : \A j \in 1..Len(PlanEntries') :
          (/\ PlanEntries[i].dirName = PlanEntries'[j].dirName
           /\ PlanEntries[i].version[1] = PlanEntries'[j].version[1])
             => PlanEntries[i].branchName = PlanEntries'[j].branchName]_vars

(* C30: the major-bump set is the union of what each pending descriptor
   declares and holds every package once, however many descriptors or lines
   declare it; the same descriptors listed in another order, with their
   lines in another order, give the same set. *)
Elements(s) == {s[i] : i \in 1..Len(s)}

Occurrences(s, x) == Cardinality({i \in 1..Len(s) : s[i] = x})

Permuted(s, t) ==
    /\ Len(s) = Len(t)
    /\ \A x \in Elements(s) \cup Elements(t) : Occurrences(s, x) = Occurrences(t, x)

Rearranged(d1, d2) ==
    /\ d1.exists = d2.exists
    /\ Len(d1.files) = Len(d2.files)
    /\ \A i \in 1..Len(d1.files) :
          Cardinality({j \in 1..Len(d2.files) :
                          /\ d2.files[j].filename = d1.files[i].filename
                          /\ Permuted(d2.files[j].lines, d1.files[i].lines)}) = 1

C30_MajorBumpSetIsOrderFreeUnion ==
    Planned =>
        /\ \A x \in Elements(MajorBumpSet) : Occurrences(MajorBumpSet, x) = 1
        /\ Elements(MajorBumpSet)
              = UNION {Elements(extractMajorBumpPackagesFromChangesets(<<PendingFiles[i]>>)) :
                          i \in 1..Len(PendingFiles)}
        /\ \A dir \in PlanDirs :
              Rearranged(versionIn.dir, dir)
                 => Elements(getMajorBumpPackages(dir)) = Elements(MajorBumpSet)

C30_Witness ==
    /\ Planned
    /\ versionIn.dir = RepeatedBumpsShuffled
    /\ MajorBumpSet = <<PkgTwo, PkgOne>>
    /\ Rearranged(versionIn.dir, RepeatedBumps)
    /\ getMajorBumpPackages(RepeatedBumps) = <<PkgOne, PkgTwo>>
    /\ versionIn.manifests = BothManifests
    /\ Len(PlanEntries) = 2

-----------------------------------------------------------------------------
(* Vocabulary of the changed-files properties *)

FirstDiffRaised == Len(log) >= 1 /\ log[1].cmd = DiffStrategies[1] /\ ~log[1].ok

FirstDiffEmpty == Len(log) >= 1 /\ log[1].cmd = DiffStrategies[1] /\ log[1].ok /\ ~log[1].out

SecondDiffIssued == \E i \in LogIdx : log[i].cmd = DiffStrategies[2]

DiffsDone == Len(log) >= 1 /\ pc \notin {"diff1", "diff2"}

DiffsNeverRaise ==
    /\ (pc = "plan" => outcome = "running")
    /\ ((Ended /\ Len(log) >= 1 /\ fsOps = <<>>) => outcome = "skipped")
    /\ ((DiffsDone /\ \A i \in 1..2 : i <= Len(log) /\ ~log[i].ok) => changedFiles = <<>>)

(* C16, as stated: once getChangedFiles has returned, the second diff command
   was issued exactly when the first one raised; getChangedFiles never raises
   and returns the empty sequence when both raised. *)
C16_SecondDiffIffFirstRaised ==
    /\ DiffsDone => (SecondDiffIssued <=> FirstDiffRaised)
    /\ DiffsNeverRaise

(* C16, amended: the second diff command is issued exactly when the first
   one raised or printed no file name; it is the second command of the run;
   getChangedFiles never raises, and it returns the empty sequence when both
   commands raised or printed nothing. *)
C16_SecondDiffIffFirstGaveNothing ==
    /\ DiffsDone => (SecondDiffIssued <=> (FirstDiffRaised \/ FirstDiffEmpty))
    /\ \A i \in LogIdx : (log[i].cmd = DiffStrategies[2] => i = 2)
                          /\ (log[i].cmd = DiffStrategies[1] => i = 1)
    /\ DiffsNeverRaise
    /\ ((DiffsDone /\ \A i \in 1..2 : i <= Len(log) /\ ~log[i].out) => changedFiles = <<>>)

C16_Witness ==
    /\ FirstDiffRaised
    /\ Len(log) = 2
    /\ log[2].cmd = DiffStrategies[2]
    /\ ~log[2].ok
    /\ Ended
    /\ outcome = "skipped"
    /\ changedFiles = <<>>

-----------------------------------------------------------------------------
(* Vocabulary of the PR-gate properties *)

GateIdx == 1..Len(gateLog)

GateDiffs == {i \in GateIdx : gateLog[i].kind = "diff"}

GateFetches == {i \in GateIdx : gateLog[i].kind = "fetch"}

Called == gatePc # "idle"

NonExempt == Called /\ ~gateResult.shouldSkip

HasFileName(stdout) == \E k \in 1..Len(stdout) : ~BlankLine(stdout[k])

GaveFiles(i) == gateLog[i].outcome = "ok" /\ HasFileName(gateLog[i].stdout)

DiffFinished == gatePc = "returned" /\ NonExempt

InFixedOrder ==
    /\ \A i, j \in GateDiffs : i < j => gateLog[i].strategy < gateLog[j].strategy
    /\ \A i \in GateDiffs :
          LET c == prContext.context
              base == Join(c.baseRef, "/")
              head == Join(c.headRef, "/")
          IN  gateLog[i].cmd =
                 (CASE gateLog[i].strategy = 1 ->
                          "git diff --name-only origin/" \o base \o "...origin/" \o head
                    [] gateLog[i].strategy = 2 ->
                          "git diff --name-only " \o c.sha.base \o "..." \o c.sha.head
                    [] gateLog[i].strategy = 3 ->
                          "git diff --name-only " \o c.sha.base \o ".." \o c.sha.head
                    [] gateLog[i].strategy = 4 ->
                          "git diff --name-only origin/" \o base \o "...HEAD")

FirstNonEmptyWins ==
    \A i \in GateDiffs :
       GaveFiles(i) =>
          /\ \A j \in GateDiffs : j <= i
          /\ gatePc = "returned"
          /\ gateResult.error = Null
          /\ gateResult.changedFiles # <<>>
          /\ \A k \in 1..Len(gateResult.changedFiles) :
                \E l \in 1..Len(gateLog[i].stdout) :
                   gateLog[i].stdout[l] = gateResult.changedFiles[k]

(* C17, as stated: the diff commands are issued in the order (a), (b), (c),
   (d); the first one whose output is non-empty ends the search and gives
   the file list; the fatal error is raised only if every strategy issued
   has failed. *)
C17_FatalOnlyIfEveryStrategyFails ==
    /\ InFixedOrder
    /\ FirstNonEmptyWins
    /\ (gateResult.error = NoMethodError => \A i \in GateDiffs : gateLog[i].outcome = "threw")

(* C17, amended: the diff commands are issued in the order (a), (b), (c),
   (d), a strategy whose refs or SHAs are missing being passed over; the
   first one that prints a file name ends the search and gives the file
   list; the fatal error is raised exactly when the search has ended and no
   strategy printed a file name, each having raised, been passed over or
   printed only blank output. *)
C17_FatalIffNoStrategyGaveFiles ==
    /\ InFixedOrder
    /\ FirstNonEmptyWins
    /\ (gateResult.error = NoMethodError
           <=> (DiffFinished /\ \A i \in GateDiffs : ~GaveFiles(i)))
    /\ (gateResult.error = NoMethodError
           => \A n \in 1..NumStrategies :
                 \/ \E i \in GateDiffs : gateLog[i].strategy = n
                 \/ (n = 1 /\ prContext.context.headRef = <<>>)
                 \/ (n \in {2, 3} /\ "" \in {prContext.context.sha.base, prContext.context.sha.head}))

C17_Witness ==
    /\ DiffFinished
    /\ ~prContext.fetchBranches
    /\ Len(gateLog) = 3
    /\ gateLog[1].cmd = "git diff --name-only origin/main...origin/feature-branch"
    /\ gateLog[1].outcome = "threw"
    /\ gateLog[2].cmd = "git diff --name-only abc123...def456"
    /\ ~GaveFiles(2)
    /\ gateLog[3].cmd = "git diff --name-only abc123..def456"
    /\ gateResult.changedFiles = <<SrcIndexJs, FeatureMd, ConfigJson>>
    /\ gateResult.error = Null

FetchOf(ref) == {i \in GateFetches : gateLog[i].cmd = "git fetch origin " \o Join(ref, "/")}

FetchRaised == \E i \in GateFetches : gateLog[i].outcome = "threw"

DiffRaised == DiffFinished /\ \A i \in GateDiffs : ~GaveFiles(i)

FetchBranchesSettled == fetching \in {"none", "fulfilled", "rejected"}

(* C18: once validateChangeset has returned and fetchBranches has settled,
   an exception raised by the fetch of the base ref, by the fetch of the
   head ref or by the computation of the changed files is in the error
   field of the result, with shouldSkip and hasChangeset false; no promise
   is left rejected. *)
C18_GitExceptionsReturnedAsError ==
    /\ (gatePc = "returned" /\ FetchBranchesSettled /\ (FetchRaised \/ DiffRaised))
          => /\ gateResult.error # Null
             /\ ~gateResult.shouldSkip
             /\ ~gateResult.hasChangeset
    /\ fetching # "rejected"

(* C19: for a non-exempt PR with branch fetching enabled, every diff command
   is issued after the fetch of the base ref and, when the head ref is not
   empty, after the fetch of the head ref, both having completed; no diff is
   attempted while fetchBranches is pending. *)
C19_BothFetchesBeforeDiff ==
    (NonExempt /\ prContext.fetchBranches) =>
        /\ \A j \in GateDiffs :
              /\ \E b \in FetchOf(prContext.context.baseRef) : b < j /\ gateLog[b].outcome = "ok"
              /\ (prContext.context.headRef # <<>> =>
                     \E h \in FetchOf(prContext.context.headRef) :
                        h < j /\ gateLog[h].outcome = "ok")
        /\ (gatePc = "diff" => fetching # "pending")

MarkerIn(text) == \E i \in 1..Len(text) : text[i] = prContext.skipLabel

LabelNames == {prContext.context.labels[i].name : i \in 1..Len(prContext.context.labels)}

ExemptByIdentity ==
    LET c == prContext.context
    IN  \/ c.eventName # "pull_request"
        \/ (Len(c.title) > 0 /\ c.title[1] = "Version Packages")
        \/ c.actor \in {"github-actions[bot]", "dependabot[bot]"}
        \/ (Len(c.headRef) >= 2 /\ c.headRef[1] \in {"changeset-release", "dependabot"})
        \/ MarkerIn(c.title)
        \/ MarkerIn(c.body)

(* C20, as stated: the call is exempt exactly when the event is not a pull
   request, the title starts with 'Version Packages', the actor is
   github-actions[bot] or dependabot[bot], the head branch starts with
   changeset-release/ or dependabot/, or the skip marker appears in the
   title, in the body or in the name of a label. *)
C20_ExemptIffMarkerAppears ==
    Called => (gateResult.shouldSkip <=> (ExemptByIdentity \/ \E n \in LabelNames : MarkerIn(n)))

(* C20, amended: as above, but a label exempts the PR only when its name is
   exactly the skip marker; a label whose name merely contains the marker
   does not. *)
C20_ExemptIffMarkerOrExactLabel ==
    Called => (gateResult.shouldSkip <=> (ExemptByIdentity \/ <<prContext.skipLabel>> \in LabelNames))

C20_Witness ==
    /\ Called
    /\ gateResult.shouldSkip
    /\ gatePc = "returned"
    /\ gateLog = <<>>
    /\ ~ExemptByIdentity
    /\ prContext.context.labels = <<[name |-> <<"bug">>], [name |-> <<SkipMarker>>]>>

(* C21: once a diff strategy has given files for a non-exempt pull request,
   the result's changesetFiles is the subsequence, in order, of its
   changedFiles whose path starts with '.changeset/' and ends with '.md';
   hasChangeset is true exactly when that subsequence is non-empty,
   shouldSkip is false and error is null. *)
DiffSucceeded == DiffFinished /\ \E i \in GateDiffs : GaveFiles(i)

InChangesetDir(path) == path[1] = ".changeset/" /\ path[Len(path)] = ".md"

C21_ChangesetFilesAreTheMatchingSubsequence ==
    DiffSucceeded =>
        /\ gateResult.changesetFiles = SelectSeq(gateResult.changedFiles, InChangesetDir)
        /\ gateResult.hasChangeset = (gateResult.changesetFiles # <<>>)
        /\ gateResult.hasChangeset \in BOOLEAN
        /\ gateResult.shouldSkip = FALSE
        /\ gateResult.error = Null

C21_Witness ==
    /\ DiffSucceeded
    /\ gateResult.changedFiles = <<FeatureMd, NestedNotesMd, SrcIndexJs, ChangesetReadmeMd>>
    /\ gateResult.changesetFiles = <<FeatureMd, ChangesetReadmeMd>>
    /\ gateResult.hasChangeset

-----------------------------------------------------------------------------
(* C22: a command that fails when exec was called without stdio 'pipe' ends
   the process with exit status 1 and gives the caller no exception; one
   that fails with stdio 'pipe' rethrows the error of execSync and does not
   call process.exit; a command that succeeds returns {stdout} in either
   mode, stdout being '' when execSync captured nothing. *)
CallIdx == 1..Len(shellCalls)

Failed(i) == shellCalls[i].run.threw

Capturing(i) == shellCalls[i].options.stdio = "pipe"

C22_ExitOrRethrowByMode ==
    /\ \A i \in CallIdx :
          LET call == shellCalls[i]
          IN  /\ (Failed(i) /\ ~Capturing(i)) =>
                    /\ call.given.outcome = "exit"
                    /\ exitCalls = <<1>>
                    /\ i = Len(shellCalls)
              /\ (Failed(i) /\ Capturing(i)) =>
                    /\ call.given.outcome = "threw"
                    /\ call.given.error = call.run.text
              /\ ~Failed(i) =>
                    /\ call.given.outcome = "returned"
                    /\ call.given.stdout =
                          (IF call.run.kind \in {"string", "buffer"} THEN call.run.text ELSE "")
    /\ Len(exitCalls) = Cardinality({i \in CallIdx : Failed(i) /\ ~Capturing(i)})

C22_Witness ==
    /\ Len(shellCalls) = 2
    /\ Failed(1) /\ Capturing(1)
    /\ shellCalls[1].given.outcome = "threw"
    /\ Failed(2) /\ ~Capturing(2)
    /\ exitCalls = <<1>>

-----------------------------------------------------------------------------
(* C26: a run of main() that found the GitHub Actions modules ends with
   exactly one signal to the host and without a call of process.exit:
   setFailed(error) when the result carries an error, else
   setOutput('skipped', 'true') when the pull request is exempt, else
   setFailed('No changeset found for this PR') when no changeset file was
   found, else setOutput('changeset-files', <the files joined by ','>). *)
MainRan == mainPc \in {"awaiting", "done"}

ProcessExited == gatePc = "exited" \/ fetching = "exited"

MainEnded == mainPc = "done" \/ (MainRan /\ ProcessExited)

C26_ExactlyOneSignalNoProcessExit ==
    /\ MainRan => Len(signals) <= 1
    /\ MainEnded =>
          /\ ~ProcessExited
          /\ Len(signals) = 1
          /\ signals[1] =
                (CASE gateResult.error # Null -> SetFailed(gateResult.error)
                   [] gateResult.error = Null /\ gateResult.shouldSkip ->
                         SetOutput("skipped", "true")
                   [] gateResult.error = Null /\ ~gateResult.shouldSkip
                         /\ ~gateResult.hasChangeset ->
                         SetFailed("No changeset found for this PR")
                   [] OTHER -> SetOutput("changeset-files",
                                         JoinPaths(gateResult.changesetFiles, ",")))

-----------------------------------------------------------------------------
(* Vocabulary of the concurrent-jobs properties *)

JobIdx == 1..NumJobs

JobLogIdx(p) == 1..Len(jobs[p].log)

SawAbsent(p, b) ==
    \E i \in JobLogIdx(p) :
       /\ jobs[p].log[i].cmd = "git ls-remote --heads origin " \o b
       /\ jobs[p].log[i].ok
       /\ ~jobs[p].log[i].out

JobIssued(p, command) == \E i \in JobLogIdx(p) : jobs[p].log[i].cmd = command

CreatedAndPushed(p, b) ==
    /\ JobIssued(p, "git branch " \o b \o " HEAD~1")
    /\ JobIssued(p, "git push origin " \o b)

Raced(b) ==
    \E p, q \in JobIdx :
       /\ p # q
       /\ SawAbsent(p, b) /\ SawAbsent(q, b)
       /\ CreatedAndPushed(p, b) /\ CreatedAndPushed(q, b)

SomeCommandFailed(b) ==
    \E p \in JobIdx : \E i \in JobLogIdx(p) :
       /\ jobs[p].log[i].cmd \in {"git branch " \o b \o " HEAD~1", "git push origin " \o b}
       /\ ~jobs[p].log[i].ok

PlannedBranches == {PlanEntries[i].branchName : i \in 1..Len(PlanEntries)}

(* C27, as stated: two interleaved release jobs can both find the branch
   absent and both issue 'git branch' and 'git push' for it; when the jobs
   are serialized no such state is reachable. *)
C27_SerializedJobsNeverBothCreate ==
    schedule = "serialized" => \A b \in PlannedBranches : ~Raced(b)

(* C27, amended: two interleaved release jobs can both find the branch
   absent and both issue 'git branch' and 'git push' for it with every
   command succeeding; when the jobs are serialized this happens only after
   a 'git branch' or 'git push' of an earlier job has failed. *)
C27_SerializedJobsBothCreateOnlyAfterFailure ==
    schedule = "serialized" =>
       \A b \in PlannedBranches : Raced(b) => SomeCommandFailed(b)

C27_Witness ==
    /\ schedule = "interleaved"
    /\ Raced("release/lib-one@1.0.0")
    /\ ~SomeCommandFailed("release/lib-one@1.0.0")
    /\ \A p \in JobIdx : jobs[p].outcome = "completed"

-----------------------------------------------------------------------------
(* C31: a release run changes nothing on disk. Every step that is not the
   planning job leaves the plan file and the changeset descriptors as they
   were, whatever the mode, branch and plan content, and the only filesystem
   calls of the run are the existence test and the read of the plan file. *)
ReadOnlyCalls == {"existsSync", "readFileSync"}

ReleaseStep == verRuns' = verRuns

C31_ReleaseRunMutatesNoFile ==
    [][ReleaseStep =>
          /\ planFile' = planFile
          /\ versionIn' = versionIn
          /\ \A i \in 1..Len(fsOps') : fsOps'[i] \in ReadOnlyCalls]_vars

C31_Witness ==
    /\ Ended
    /\ outcome = "completed"
    /\ FanOut
    /\ versionIn.ran
    /\ Len(PlanEntries) = 2
    /\ fsOps = <<"existsSync", "readFileSync">>
    /\ Issued("push") # {}
    /\ PublishIdx # {}

-----------------------------------------------------------------------------
(* C32, as stated: 'git branch <b>' is issued only right after an ls-remote
   for the same name b of the same run that succeeded with empty output; and
   a run in which an ls-remote raised has issued no create, no push and no
   publish. *)
RaisedAt(k) == log[k].kind = "ls-remote" /\ ~log[k].ok

BranchFollowsEmptyCheck ==
    \A j \in Issued("branch") :
       /\ j > 1
       /\ AbsentAt(j - 1)
       /\ \E i \in 1..Len(steps) :
             /\ steps[i].type = "ensure-maintenance-branch"
             /\ log[j].cmd = "git branch " \o steps[i].branchName \o " HEAD~1"
             /\ log[j - 1].cmd = "git ls-remote --heads origin " \o steps[i].branchName

C32_BranchOnlyAfterEmptyCheck ==
    /\ BranchFollowsEmptyCheck
    /\ (\E k \in LogIdx : RaisedAt(k)) =>
          Issued("branch") \cup Issued("push") \cup PublishIdx = {}

(* C32, amended: 'git branch <b>' is issued only right after an ls-remote
   for the same name b of the same run that succeeded with empty output; an
   ls-remote that raised is the last command of its run, which has ended
   with the exception: no create or push is issued for that entry and no
   publish in that run. Creates and pushes of earlier entries of the plan
   have already been issued. *)
C32_BranchOnlyAfterEmptyCheckOfItsEntry ==
    /\ BranchFollowsEmptyCheck
    /\ \A k \in LogIdx :
          RaisedAt(k) =>
             /\ k = Len(log)
             /\ Ended
             /\ outcome = "threw"
             /\ PublishIdx = {}
             /\ \A j \in Issued("branch") \cup Issued("push") : log[j].step < log[k].step

C32_Witness ==
    /\ Ended
    /\ outcome = "threw"
    /\ Len(log) = 5
    /\ AbsentAt(2)
    /\ log[3].kind = "branch"
    /\ log[4].kind = "push"
    /\ log[4].ok
    /\ RaisedAt(5)

-----------------------------------------------------------------------------
(* C33: in a multi-release run on 'main', once the run stands at the publish
   step or has issued publish, every branch name of the loaded plan is on
   the remote (a push that succeeded put its branch there, and nothing
   removes remote branches): publish is never issued while a planned
   maintenance branch is missing. *)
AtPublish == pc = "step" /\ steps[stepIdx].type = "exec" /\ steps[stepIdx].cmd = PublishCmd

AllPlannedOnRemote == \A i \in 1..Len(PlanEntries) : EntryBranch(i) \in remote

C33_PlannedBranchesExistAtPublish ==
    (FanOut /\ (AtPublish \/ PublishIdx # {})) => AllPlannedOnRemote

C33_Witness ==
    /\ Ended
    /\ outcome = "completed"
    /\ FanOut
    /\ Len(PlanEntries) = 2
    /\ PublishIdx # {}
    /\ \E k \in LogIdx : PresentAt(k)
    /\ \E j \in Issued("push") : log[j].ok

-----------------------------------------------------------------------------
(* C34: publish is the last command of a release run. Once 'pnpm changeset
   publish' has been issued the run has ended and no diff, ls-remote,
   'git branch' or 'git push' follows it; and every entry the run acts on
   has been handled before it: its existence check succeeded and either
   found the branch or was followed by a successful create and push. In a
   multi-release run on 'main' these entries are those of the plan file,
   one for one and in order. *)
Processed(i, p) ==
    \E k \in Issued("ls-remote") :
       /\ log[k].step = i
       /\ k < p
       /\ \/ PresentAt(k)
          \/ /\ AbsentAt(k)
             /\ k + 2 < p
             /\ log[k + 1].kind = "branch" /\ log[k + 1].ok /\ log[k + 1].step = i
             /\ log[k + 2].kind = "push" /\ log[k + 2].ok /\ log[k + 2].step = i

C34_PublishIsTerminal ==
    \A p \in PublishIdx :
       /\ p = Len(log)
       /\ Ended
       /\ outcome \in {"completed", "exit"}
       /\ \A i \in 1..Len(steps) :
             steps[i].type = "ensure-maintenance-branch" => Processed(i, p)
       /\ FanOut =>
             /\ Len(steps) = Len(PlanEntries) + 1
             /\ \A i \in 1..Len(PlanEntries) :
                   /\ steps[i].type = "ensure-maintenance-branch"
                   /\ steps[i].branchName = EntryBranch(i)

C34_Witness ==
    /\ Ended
    /\ outcome = "completed"
    /\ FanOut
    /\ Len(PlanEntries) = 2
    /\ Len(log) = 6
    /\ log[6].cmd = PublishCmd
    /\ Processed(1, 6)
    /\ Processed(2, 6)
    /\ Cardinality(Issued("push")) = 1

-----------------------------------------------------------------------------
(* C35: after the planning job, any two different package names of the
   major-bump set whose manifests resolve have entries in the plan with
   different branch names, two scoped packages of different scopes with the
   same last name segment included. *)
C35_DistinctPackagesDistinctBranches ==
    Planned =>
       \A k, l \in 1..Len(MajorBumpSet) :
          (MajorBumpSet[k] # MajorBumpSet[l] /\ Resolves(MajorBumpSet[k]) /\ Resolves(MajorBumpSet[l]))
             => /\ EntriesOf(MajorBumpSet[k]) # {}
                /\ EntriesOf(MajorBumpSet[l]) # {}
                /\ \A i \in EntriesOf(MajorBumpSet[k]), j \in EntriesOf(MajorBumpSet[l]) :
                      PlanEntries[i].branchName # PlanEntries[j].branchName

-----------------------------------------------------------------------------
(* C36: for an exempt context (not a pull request, a release or bot PR, or
   one carrying the skip marker) validateChangeset issues no git command,
   neither fetch nor diff, whether or not fetching was asked for, and has
   returned shouldSkip true, hasChangeset false, empty changedFiles and
   changesetFiles, and error null. *)
Exempt == ExemptByIdentity \/ <<prContext.skipLabel>> \in LabelNames

C36_ExemptCallIssuesNoGitCommand ==
    (Called /\ Exempt) =>
        /\ gatePc = "returned"
        /\ gateLog = <<>>
        /\ fetching = "none"
        /\ gateResult.shouldSkip
        /\ ~gateResult.hasChangeset
        /\ gateResult.changedFiles = <<>>
        /\ gateResult.changesetFiles = <<>>
        /\ gateResult.error = Null

C36_Witness ==
    /\ Called
    /\ gatePc = "returned"
    /\ prContext.context.eventName = "pull_request"
    /\ prContext.context.actor = "dependabot[bot]"
    /\ prContext.context.title = <<"Fix bug">>
    /\ prContext.context.labels = <<>>
    /\ prContext.fetchBranches
    /\ gateResult.shouldSkip
    /\ gateResult.skipReason = SkipReason
    /\ gateLog = <<>>

-----------------------------------------------------------------------------
(* C37: every release run terminates when each external command returns or
   fails. A run issues at most two changed-files diff commands, at most
   three commands (check, create, push) for a plan entry and at most one
   publish, hence at most 2 + 3 * |plan| + 1 commands; and a run that has
   started reaches a final state: completed, skipped, or failed (by an
   exception or by process exit). *)
CommandsOfStep(i) == {j \in LogIdx : log[j].step = i /\ log[j].kind # "diff"}

FinalOutcomes == {"completed", "skipped", "threw", "exit"}

CommandBound ==
    /\ Cardinality(Issued("diff")) <= 2
    /\ \A i \in 1..Len(steps) :
          steps[i].type = "ensure-maintenance-branch" => Cardinality(CommandsOfStep(i)) <= 3
    /\ Cardinality(Issued("ls-remote") \cup Issued("branch") \cup Issued("push"))
          <= 3 * Len(PlanEntries)
    /\ Cardinality(PublishIdx) <= 1
    /\ Len(log) <= 2 + 3 * Len(PlanEntries) + 1
    /\ (Ended => outcome \in FinalOutcomes)

C37_RunTerminatesWithinCommandBound ==
    /\ []CommandBound
    /\ (Started /\ ~Ended) ~> Ended

C37_Witness ==
    /\ Ended
    /\ outcome = "completed"
    /\ Len(PlanEntries) = 2
    /\ Cardinality(Issued("diff")) = 2
    /\ Len(log) = 2 + 3 * Len(PlanEntries) + 1

====
